---- MODULE Spec2Model ----
(***************************************************************************)
(* Model of the movie aggregation service of src/main.go: the four HTTP    *)
(* handlers, the title resolver (getDetailByTitle), the keyword candidate  *)
(* collector (collectByGenre), the ranker (ratingVal, topByRating) and the *)
(* upstream provider they call.                                            *)
(*                                                                         *)
(* Representation.  A Go string whose characters matter (Genre, Director,  *)
(* Actors, imdbRating, the query parameters) is a sequence of one-         *)
(* character strings.  An identifier or flag that the code only compares   *)
(* for equality (imdbID, Response, seed keywords) is a TLA+ string.  A     *)
(* field of a decoded JSON object (map[string]interface{}) is <<>> when    *)
(* the key is absent or does not hold a string and <<v>> when it holds the *)
(* string v.  The fields Title and Year are copied through by the code     *)
(* and never inspected; they are left out of the records.                  *)
(***************************************************************************)
EXTENDS Integers, Sequences, FiniteSets, TLC

VARIABLES
    pc,       \* position of the request handler
    route,    \* "movie" | "episode" | "genre" | "recommend" | "rank"
    query,    \* the query parameters of the inbound request
    resp,     \* the HTTP response written by the handler, code 0 = none yet
    call,     \* the upstream call issued by the latest step, NoCall if none
    called,   \* whether this request has issued any upstream call
    audit,    \* one upstream call that is watched, and whether it has failed
    seed,     \* recommendHandler: <<>> or <<record>> returned by getDetailByTitle
    seen,     \* recommendHandler: the seen set
    result,   \* recommendHandler: the accumulated result slice
    phase,    \* recommendHandler: 0 none, 1 genre, 2 director, 3 actor, 4 finished
    terms,    \* recommendHandler: terms of the current phase not yet visited
    ninv,     \* number of collectByGenre invocations of this request
    page,     \* getDetailByTitle: the loop variable p, 0 before the loop
    gen,      \* collectByGenre: parameter gen
    limit,    \* collectByGenre: parameter limit
    kwi,      \* collectByGenre: index into kw of the keyword being scanned
    hits,     \* hits of the latest search result not yet visited by the range loop
    it,       \* the imdbID of the hit the range loop visited last
    found,    \* collectByGenre: the map found, imdbID of the hit -> record
    cands,    \* the slice returned by collectByGenre, until its caller has used it
    rankIn,   \* ranker check: the list and n handed to topByRating
    rankOut   \* ranker check: <<>> or <<result of topByRating>>

vars == <<pc, route, query, resp, call, called, audit, seed, seen, result, phase, terms,
          ninv, page, gen, limit, kwi, hits, it, found, cands, rankIn, rankOut>>

(***************************************************************************)
(* Bounds                                                                  *)
(***************************************************************************)
\* perLevel is 20 in main.go:246; the model scales it down so that the
\* target is reached with the few titles of the model.
perLevel == 2
\* topByRating(cands, 15) of main.go:221, scaled down; the limit 150 of
\* collectByGenre(genre, 150) in main.go:220 is scaled to one more.
genreTop == 2
genreLimit == genreTop + 1
\* longest hit list a keyword search returns in the model
MaxHits == 3
\* how many of the nine seed keywords of main.go:162 the model scans
NumKw == 2
\* longest candidate list handed to topByRating in the ranker check
MaxLen == 3

(***************************************************************************)
(* Strings                                                                 *)
(***************************************************************************)
NoStr == <<>>
Str(v) == <<v>>
IsStr(f) == Len(f) = 1

Upper == <<"A", "D", "N", "I", "F", "T", "Y">>
Lower == <<"a", "d", "n", "i", "f", "t", "y">>

\* strings.ToLower on one character
lowerChar(c) ==
    IF \E i \in 1..Len(Upper) : Upper[i] = c
    THEN Lower[CHOOSE i \in 1..Len(Upper) : Upper[i] = c]
    ELSE c

\* strings.ToLower
ToLower(s) == [i \in 1..Len(s) |-> lowerChar(s[i])]

\* strings.Contains
Contains(s, sub) ==
    \E i \in 0..(Len(s) - Len(sub)) : SubSeq(s, i + 1, i + Len(sub)) = sub

\* strings.TrimSpace
RECURSIVE TrimLeft(_)
TrimLeft(s) == IF s # <<>> /\ Head(s) = " " THEN TrimLeft(Tail(s)) ELSE s
RECURSIVE TrimRight(_)
TrimRight(s) ==
    IF s # <<>> /\ s[Len(s)] = " " THEN TrimRight(SubSeq(s, 1, Len(s) - 1)) ELSE s
TrimSpace(s) == TrimRight(TrimLeft(s))

\* strings.Split(s, ","): always at least one piece, possibly empty
RECURSIVE Split(_)
Split(s) ==
    IF \E i \in 1..Len(s) : s[i] = ","
    THEN LET i == CHOOSE j \in 1..Len(s) :
                     s[j] = "," /\ \A k \in 1..(j - 1) : s[k] # ","
         IN  <<SubSeq(s, 1, i - 1)>> \o Split(SubSeq(s, i + 1, Len(s)))
    ELSE <<s>>

\* the trimmed terms of a comma separated field, main.go:253-254
Terms(s) == [i \in 1..Len(Split(s)) |-> TrimSpace(Split(s)[i])]

(***************************************************************************)
(* float64 values and strconv.ParseFloat                                   *)
(* A finite value is kept as an integer count of hundredths; the rating    *)
(* strings of the model have at most two fractional digits.                *)
(***************************************************************************)
Scale == 10 * 10
Num(v) == [k |-> "num", v |-> v]
NaN == [k |-> "nan", v |-> 0]
Inf(sign) == [k |-> "inf", v |-> sign]

\* the float64 comparison a > b: false whenever either side is NaN
FGt(a, b) ==
    CASE a.k = "nan" \/ b.k = "nan" -> FALSE
      [] a.k = "inf" /\ b.k = "inf" -> a.v > b.v
      [] a.k = "inf" -> a.v > 0
      [] b.k = "inf" -> b.v < 0
      [] OTHER -> a.v > b.v

\* the float64 comparison a >= b
FGe(a, b) ==
    CASE a.k = "nan" \/ b.k = "nan" -> FALSE
      [] a.k = "inf" /\ b.k = "inf" -> a.v >= b.v
      [] a.k = "inf" -> a.v > 0
      [] b.k = "inf" -> b.v < 0
      [] OTHER -> a.v >= b.v

DigitChars == {"0", "1", "2", "3", "4", "5", "6", "7", "8", "9"}
DigitVal(c) ==
    CASE c = "0" -> 0 [] c = "1" -> 1 [] c = "2" -> 2 [] c = "3" -> 3
      [] c = "4" -> 4 [] c = "5" -> 5 [] c = "6" -> 6 [] c = "7" -> 7
      [] c = "8" -> 8 [] c = "9" -> 9

AllDigits(s) == \A i \in 1..Len(s) : s[i] \in DigitChars

RECURSIVE IntVal(_)
IntVal(s) == IF s = <<>> THEN 0 ELSE IntVal(SubSeq(s, 1, Len(s) - 1)) * 10 + DigitVal(s[Len(s)])

\* the fraction digits as hundredths
FracVal(s) ==
    CASE Len(s) = 0 -> 0
      [] Len(s) = 1 -> DigitVal(s[1]) * 10
      [] OTHER -> DigitVal(s[1]) * 10 + DigitVal(s[2])

HasSign(s) == s # <<>> /\ Head(s) \in {"+", "-"}
Unsigned(s) == IF HasSign(s) THEN Tail(s) ELSE s
SignOf(s) == IF s # <<>> /\ Head(s) = "-" THEN -1 ELSE 1

\* strconv.ParseFloat(s, 64) on the characters of the model (digits, sign,
\* point, letters): the special values "NaN" and the possibly signed "Inf"
\* and "Infinity" in any letter case, else a decimal number with at least
\* one digit and at most one point; anything else is a syntax error.
ParseFloat(s) ==
    LET u == Unsigned(s)
        l == ToLower(u)
        dot == IF \E i \in 1..Len(u) : u[i] = "."
               THEN CHOOSE i \in 1..Len(u) : u[i] = "." /\ \A k \in 1..(i - 1) : u[k] # "."
               ELSE Len(u) + 1
        ip == SubSeq(u, 1, dot - 1)
        fp == SubSeq(u, dot + 1, Len(u))
    IN  CASE ToLower(s) = <<"n", "a", "n">> -> [err |-> FALSE, f |-> NaN]
          [] l = <<"i", "n", "f">> \/ l = <<"i", "n", "f", "i", "n", "i", "t", "y">>
                -> [err |-> FALSE, f |-> Inf(SignOf(s))]
          [] AllDigits(ip) /\ AllDigits(fp) /\ Len(ip) + Len(fp) >= 1 /\ Len(fp) <= 2
                -> [err |-> FALSE, f |-> Num(SignOf(s) * (IntVal(ip) * Scale + FracVal(fp)))]
          [] OTHER -> [err |-> TRUE, f |-> Num(0)]

(***************************************************************************)
(* Ranker                                                                  *)
(***************************************************************************)
\* rating strings
R85 == <<"8", ".", "5">>
R9 == <<"9">>
RNA == <<"N", "/", "A">>
RNaN == <<"N", "a", "N">>

ratingVal(m) ==
    IF IsStr(m.imdbRating) /\ m.imdbRating[1] # RNA /\ m.imdbRating[1] # <<>>
    THEN LET p == ParseFloat(m.imdbRating[1])
         IN  IF ~p.err THEN p.f ELSE Num(0)
    ELSE Num(0)

\* the comparison function handed to sort.Slice, main.go:207
less(a, b) == FGt(ratingVal(a), ratingVal(b))

\* sort.Slice on a slice of at most 12 elements is an insertion sort
\* (insertionSortLessFunc): element i moves left while it is less than
\* its left neighbour.
RECURSIVE sinkLeft(_, _)
sinkLeft(list, j) ==
    IF j > 1 /\ less(list[j], list[j - 1])
    THEN sinkLeft([list EXCEPT ![j] = list[j - 1], ![j - 1] = list[j]], j - 1)
    ELSE list

RECURSIVE insertionSort(_, _)
insertionSort(list, i) ==
    IF i > Len(list) THEN list ELSE insertionSort(sinkLeft(list, i), i + 1)

sortSlice(list) == insertionSort(list, 2)

\* topByRating sorts the caller's slice in place and returns a prefix of
\* it: list is the caller's slice after the call, out the returned slice.
topByRating(list, n) ==
    LET sorted == sortSlice(list)
    IN  [list |-> sorted,
         out |-> IF Len(sorted) > n THEN SubSeq(sorted, 1, n) ELSE sorted]

(***************************************************************************)
(* The upstream provider                                                   *)
(***************************************************************************)
Rec(id, g, d, a, r, rs) ==
    [imdbID |-> id, Genre |-> g, Director |-> d, Actors |-> a,
     imdbRating |-> r, Response |-> rs]

\* The bodies the provider answers a detail request with.  The provider is
\* not trusted to answer a request by ID with a record of that imdbID.
M1 == Rec(Str("t1"), Str(<<"A", ",", " ", "D">>), Str(<<"N">>), NoStr, Str(R85), Str("True"))
M2 == Rec(Str("t2"), Str(<<"a">>), NoStr, Str(<<"D">>), Str(RNA), NoStr)
M3 == Rec(Str("t3"), Str(<<"D", ",", "N">>), NoStr, NoStr, Str(RNaN), Str("Error"))
M4 == Rec(NoStr, NoStr, NoStr, NoStr, NoStr, Str("True"))
M5 == Rec(Str("t4"), Str(<<"d">>), NoStr, NoStr, Str(R9), Str("True"))
MF == Rec(NoStr, NoStr, NoStr, NoStr, NoStr, Str("False"))
Bodies == {M1, M2, M3, M4, M5, MF}

\* the records of the candidate lists of the ranker check
RankRecords == {M1, M2, M3, M4, M5}

\* fetchJSON on a detail URL: an error (transport, status other than 200,
\* decode) or a decoded body
DetailAnswers == {[err |-> TRUE, md |-> MF]} \cup {[err |-> FALSE, md |-> b] : b \in Bodies}

\* fetchJSON on a search URL: an error, or a decoded searchResult with its
\* Response flag and n hits.  The hits are read one by one by the range
\* loops, and the model draws the imdbID of each when the loop reaches it.
SearchAnswers ==
    {[err |-> TRUE, response |-> NoStr, n |-> 0]}
        \cup {[err |-> FALSE, response |-> Str(r), n |-> n] :
                  r \in {"True", "False"}, n \in 0..MaxHits}

\* the imdbID of a search hit; it may be empty
HitIds == {"", "t1", "t2", "t3"}

\* the fixed seed keywords, main.go:162, cut to the first NumKw
AllKw == <<"the", "a", "man", "love", "star", "dark", "king", "matrix", "avengers">>
kw == SubSeq(AllKw, 1, NumKw)

NoCall == [kind |-> "none", key |-> "", page |-> 0, err |-> FALSE,
           response |-> NoStr, md |-> <<>>]
DetailCall(kind, key, ans) ==
    [kind |-> kind, key |-> key, page |-> 0, err |-> ans.err,
     response |-> IF ans.err THEN NoStr ELSE ans.md.Response,
     md |-> IF ans.err THEN <<>> ELSE <<ans.md>>]
SearchCall(key, p, ans) ==
    [kind |-> "search", key |-> key, page |-> p, err |-> ans.err,
     response |-> ans.response, md |-> <<>>]

\* A call has failed when fetchJSON returned an error or the body says
\* Response "False".
callFailed(c) == c.kind # "none" /\ (c.err \/ c.response = Str("False"))
\* what identifies a call: its kind, its title, keyword or imdbID, its page
callId(c) == <<c.kind, c.key, c.page>>

\* The audit watches one call, chosen when the request starts, and notes
\* when that call has failed; NoWatch watches none.  The watched call is the
\* search of the first seed keyword or the fetch of one imdbID (the hits
\* draw every imdbID alike).
NoWatch == <<"none", "", 0>>
CallIds ==
    {<<"search", kw[1], 1>>, <<"id", "t1", 0>>}
noteFailure(a, c) ==
    IF callFailed(c) /\ callId(c) = a.watch THEN [a EXCEPT !.failed = TRUE] ELSE a

\* a faulty variant of lastPage that stops after the first page; C7 rules it
\* out
lastPageOne == 2 - 1

\* a faulty variant of lastPage that searches a third page; C15 rules it out
lastPageThree == 2 + 1

\* the last page getDetailByTitle searches, main.go:143
lastPage == 2

\* a faulty variant of afterFetch that never leaves the hit; C18 rules it out
afterFetchStay(h, ok) == h

\* a faulty variant of afterFetch that stays on the hit whose fetch failed,
\* to fetch it again; C10 rules it out
afterFetchRetry(h, ok) == IF ok THEN h - 1 ELSE h

\* The range loops go on to the next hit after a fetch by ID, whether it
\* failed or not (continue, main.go:152 and 176-178): h hits were left.
afterFetch(h, ok) == h - 1

\* searchByKeyword: the number of hits its caller ranges over
searchByKeyword(ans) ==
    IF ans.err \/ ans.response = Str("False") THEN 0 ELSE ans.n

\* getDetailByID returns the body unless fetchJSON failed or Response is "False"
getDetailByIDOk(ans) == ~ans.err /\ ans.md.Response # Str("False")

\* a faulty variant of directOk that compares with "true"; C6 rules it out
directOkLowercase(ans) == ~ans.err /\ ans.md.Response = Str("true")

\* the direct fetch of getDetailByTitle is taken only when Response is "True"
directOk(ans) == ~ans.err /\ ans.md.Response = Str("True")

(***************************************************************************)
(* collectByGenre                                                          *)
(***************************************************************************)
EmptyMap == [x \in {} |-> x]

\* a faulty variant of genreMatches that compares case-sensitively; C17
\* rules it out
genreMatchesExactCase(md, g) ==
    IsStr(md.Genre) /\ Contains(md.Genre[1], g)

\* main.go:179
genreMatches(md, g) ==
    IsStr(md.Genre) /\ Contains(ToLower(md.Genre[1]), ToLower(g))

\* the key a hit is stored under in found: its imdbID, main.go:172-180
foundKey(id, k) == <<id>>

\* a faulty variant of full that breaks one admission late; C16 rules it out
fullOneLate(f, lim) == Cardinality(DOMAIN f) > lim

\* the test of both breaks, len(found) >= limit, main.go:181-188
full(f, lim) == Cardinality(DOMAIN f) >= lim

\* the sequences holding each value of the map once: the orders in which
\* "for _, v := range found" may visit it
Orders(m) ==
    LET keys == {s \in [1..Cardinality(DOMAIN m) -> DOMAIN m] :
                    \A i, j \in DOMAIN s : i # j => s[i] # s[j]}
    IN  {[i \in DOMAIN s |-> m[s[i]]] : s \in keys}

(***************************************************************************)
(* recommendHandler                                                        *)
(***************************************************************************)
\* the field a phase reads: 1 Genre, 2 Director, 3 Actors
phaseField(md, p) ==
    CASE p = 1 -> md.Genre [] p = 2 -> md.Director [] OTHER -> md.Actors

\* a faulty variant of phaseTerms that splits the empty string when the
\* field is absent; C9 rules it out
phaseTermsOfAbsent(md, p) ==
    IF IsStr(phaseField(md, p)) THEN Terms(phaseField(md, p)[1]) ELSE Terms(<<>>)

phaseTerms(md, p) ==
    IF IsStr(phaseField(md, p)) THEN Terms(phaseField(md, p)[1]) ELSE <<>>

\* a faulty variant of seedSeen that forgets the seed; C1 rules it out
seedSeenForgets(md) == {}

\* the seen set starts with the imdbID of the seed, main.go:247-250
seedSeen(md) == IF IsStr(md.imdbID) /\ md.imdbID[1] # "" THEN {md.imdbID[1]} ELSE {}

\* a faulty variant of admit that does not look the candidate up in seen;
\* C19 rules it out
RECURSIVE admitSeenIgnored(_, _, _)
admitSeenIgnored(cs, sn, res) ==
    IF cs = <<>> THEN [seen |-> sn, result |-> res]
    ELSE LET m == Head(cs)
         IN  IF IsStr(m.imdbID)
             THEN IF Len(res) + 1 >= perLevel
                  THEN [seen |-> sn \cup {m.imdbID[1]}, result |-> Append(res, m)]
                  ELSE admitSeenIgnored(Tail(cs), sn \cup {m.imdbID[1]}, Append(res, m))
             ELSE admitSeenIgnored(Tail(cs), sn, res)

\* a faulty variant of admit that never breaks out of the loop; C2 rules it
\* out
RECURSIVE admitNoBreak(_, _, _)
admitNoBreak(cs, sn, res) ==
    IF cs = <<>> THEN [seen |-> sn, result |-> res]
    ELSE LET m == Head(cs)
         IN  IF IsStr(m.imdbID) /\ m.imdbID[1] \notin sn
             THEN admitNoBreak(Tail(cs), sn \cup {m.imdbID[1]}, Append(res, m))
             ELSE admitNoBreak(Tail(cs), sn, res)

\* the loop "for _, m := range cands" of each phase, main.go:256-264
RECURSIVE admit(_, _, _)
admit(cs, sn, res) ==
    IF cs = <<>> THEN [seen |-> sn, result |-> res]
    ELSE LET m == Head(cs)
         IN  IF IsStr(m.imdbID) /\ m.imdbID[1] \notin sn
             THEN IF Len(res) + 1 >= perLevel
                  THEN [seen |-> sn \cup {m.imdbID[1]}, result |-> Append(res, m)]
                  ELSE admit(Tail(cs), sn \cup {m.imdbID[1]}, Append(res, m))
             ELSE admit(Tail(cs), sn, res)

\* a faulty variant of advance that goes on to the next term or phase with
\* a full result; C14 rules it out
RECURSIVE advanceWhenFull(_, _, _, _)
advanceWhenFull(md, p, ts, res) ==
    IF ts # <<>> THEN [done |-> FALSE, phase |-> p, terms |-> ts]
    ELSE IF p >= 3 THEN [done |-> TRUE, phase |-> 4, terms |-> <<>>]
    ELSE advanceWhenFull(md, p + 1, phaseTerms(md, p + 1), res)

\* Where the handler goes once the terms ts of phase p are left: the next
\* term to collect for, or the end of the three phases.  p = 0 is the
\* entry, before the genre phase.
RECURSIVE advance(_, _, _, _)
advance(md, p, ts, res) ==
    IF p >= 1 /\ Len(res) >= perLevel THEN [done |-> TRUE, phase |-> 4, terms |-> <<>>]
    ELSE IF ts # <<>> THEN [done |-> FALSE, phase |-> p, terms |-> ts]
    ELSE IF p >= 3 THEN [done |-> TRUE, phase |-> 4, terms |-> <<>>]
    ELSE advance(md, p + 1, phaseTerms(md, p + 1), res)

\* the entries of the recommendations array, main.go:313-324
recView(m) ==
    [imdbID |-> m.imdbID, Genre |-> m.Genre, Director |-> m.Director,
     Actors |-> m.Actors, imdbRating |-> m.imdbRating]

\* the entries of the movies array, main.go:222-231
movieView(m) == [imdbID |-> m.imdbID, Genre |-> m.Genre, imdbRating |-> m.imdbRating]

\* The response: its status code, whether the payload has an error field,
\* the count field (<<>> when the payload has none) and the array of the
\* payload (movies or recommendations).
NoResp == [code |-> 0, error |-> FALSE, count |-> <<>>, list |-> <<>>]
ErrorResp(c) == [code |-> c, error |-> TRUE, count |-> <<>>, list |-> <<>>]
PlainResp == [code |-> 200, error |-> FALSE, count |-> <<>>, list |-> <<>>]
GenreResp(out) == [code |-> 200, error |-> FALSE, count |-> <<Len(out)>>, list |-> out]
RecommendResp(out) == [code |-> 200, error |-> FALSE, count |-> <<>>, list |-> out]

(***************************************************************************)
(* Requests                                                                *)
(***************************************************************************)
NoQuery == [title |-> <<>>, series_title |-> <<>>, season |-> <<>>,
            episode_number |-> <<>>, genre |-> <<>>, favorite_movie |-> <<>>]

\* c.Query gives "" for a parameter that is missing or empty
ParamValues == {<<>>, <<"x">>}
GenreValues == {<<>>, <<"A">>, <<"d">>, <<"N">>}

Requests ==
    {[route |-> "movie", query |-> [NoQuery EXCEPT !.title = t]] : t \in ParamValues}
    \cup {[route |-> "episode",
           query |-> [NoQuery EXCEPT !.series_title = s, !.season = se,
                                     !.episode_number = e]] :
              s \in ParamValues, se \in ParamValues, e \in ParamValues}
    \cup {[route |-> "genre", query |-> [NoQuery EXCEPT !.genre = g]] : g \in GenreValues}
    \cup {[route |-> "recommend", query |-> [NoQuery EXCEPT !.favorite_movie = f]] :
              f \in ParamValues}

\* the parameter checks of the handlers, main.go:72, 97, 216, 237
movieParamsMissing(q) == q.title = <<>>
\* a faulty variant of episodeParamsMissing that rejects the request only
\* when all three parameters are missing; C8 rules it out
episodeParamsAllMissing(q) ==
    q.series_title = <<>> /\ q.season = <<>> /\ q.episode_number = <<>>

episodeParamsMissing(q) ==
    q.series_title = <<>> \/ q.season = <<>> \/ q.episode_number = <<>>
genreParamsMissing(q) == q.genre = <<>>
recommendParamsMissing(q) == q.favorite_movie = <<>>

NoRank == [list |-> <<>>, n |-> 0]

Start ==
    /\ \E r \in Requests : route = r.route /\ query = r.query
    /\ pc = "start"
    /\ resp = NoResp
    /\ call = NoCall
    /\ called = FALSE
    /\ seed = <<>>
    /\ seen = {}
    /\ result = <<>>
    /\ phase = 0
    /\ terms = <<>>
    /\ ninv = 0
    /\ page = 0
    /\ gen = <<>>
    /\ limit = 0
    /\ kwi = 0
    /\ hits = 0
    /\ it = ""
    /\ found = EmptyMap
    /\ cands = <<>>
    /\ rankIn = NoRank
    /\ rankOut = <<>>

Init == Start /\ audit = [watch |-> NoWatch, failed |-> FALSE]

\* the same requests, with one call watched
InitAudit == Start /\ \E w \in CallIds : audit = [watch |-> w, failed |-> FALSE]

rankVars == <<rankIn, rankOut>>
recVars == <<seed, seen, result, phase, terms>>
collVars == <<gen, limit, kwi, hits, it, found, cands, ninv>>

\* the handler writes its response and returns
Respond(r) == pc' = "done" /\ resp' = r

\* a call of collectByGenre(g, lim): its frame before the first keyword
\* (the loop variable it is left to the caller)
Invoke(g, lim) ==
    /\ pc' = "collect"
    /\ gen' = g
    /\ limit' = lim
    /\ kwi' = 0
    /\ hits' = 0
    /\ found' = EmptyMap
    /\ cands' = <<>>
    /\ ninv' = ninv + 1

(***************************************************************************)
(* movieHandler and episodeHandler                                         *)
(***************************************************************************)
movieHandler ==
    /\ pc = "start" /\ route = "movie"
    /\ IF movieParamsMissing(query)
       THEN Respond(ErrorResp(400)) /\ UNCHANGED <<call, called, audit>>
       ELSE \E ans \in DetailAnswers :
                /\ call' = DetailCall("title", "title", ans)
                /\ called' = TRUE
                /\ audit' = noteFailure(audit, call')
                /\ IF ans.err \/ ans.md.Response = Str("False")
                   THEN Respond(ErrorResp(404))
                   ELSE Respond(PlainResp)
    /\ UNCHANGED <<route, query, page, recVars, collVars, rankVars>>

episodeHandler ==
    /\ pc = "start" /\ route = "episode"
    /\ IF episodeParamsMissing(query)
       THEN Respond(ErrorResp(400)) /\ UNCHANGED <<call, called, audit>>
       ELSE \E ans \in DetailAnswers :
                /\ call' = DetailCall("episode", "episode", ans)
                /\ called' = TRUE
                /\ audit' = noteFailure(audit, call')
                /\ IF ans.err \/ ans.md.Response = Str("False")
                   THEN Respond(ErrorResp(404))
                   ELSE Respond(PlainResp)
    /\ UNCHANGED <<route, query, page, recVars, collVars, rankVars>>

(***************************************************************************)
(* moviesByGenreHandler                                                    *)
(***************************************************************************)
moviesByGenreHandler ==
    /\ pc = "start" /\ route = "genre"
    /\ IF genreParamsMissing(query)
       THEN Respond(ErrorResp(400)) /\ UNCHANGED collVars
       ELSE Invoke(query.genre, genreLimit) /\ UNCHANGED <<resp, it>>
    /\ UNCHANGED <<route, query, call, called, audit, page, recVars, rankVars>>

\* main.go:221-232, once collectByGenre has returned
moviesByGenreReturn ==
    /\ pc = "returned" /\ route = "genre"
    /\ LET top == topByRating(cands, genreTop).out
       IN  Respond(GenreResp([i \in 1..Len(top) |-> movieView(top[i])]))
    /\ cands' = <<>>
    /\ call' = NoCall
    /\ UNCHANGED <<route, query, called, audit, page, recVars, gen, limit, kwi, hits,
                   it, found, ninv, rankVars>>

(***************************************************************************)
(* collectByGenre, main.go:160-195, one step per loop iteration            *)
(***************************************************************************)
\* the outer loop takes the next keyword: items := searchByKeyword(k, 1)
collectSearch ==
    /\ pc = "collect" /\ hits = 0 /\ kwi < Len(kw)
    /\ ~full(found, limit)
    /\ \E ans \in SearchAnswers :
           /\ call' = SearchCall(kw[kwi + 1], 1, ans)
           /\ hits' = searchByKeyword(ans)
    /\ audit' = noteFailure(audit, call')
    /\ kwi' = kwi + 1
    /\ called' = TRUE
    /\ UNCHANGED <<pc, route, query, resp, page, recVars, gen, limit, it, found, cands,
                   ninv, rankVars>>

\* the inner loop visits the next hit
collectVisit ==
    /\ pc = "collect" /\ hits > 0
    /\ ~full(found, limit)
    /\ \E id \in HitIds :
           /\ it' = id
           /\ IF id = "" \/ foundKey(id, kwi) \in DOMAIN found
              THEN /\ call' = NoCall
                   /\ hits' = hits - 1
                   /\ UNCHANGED <<called, audit, found>>
              ELSE \E ans \in DetailAnswers :
                    /\ call' = DetailCall("id", id, ans)
                    /\ called' = TRUE
                    /\ audit' = noteFailure(audit, call')
                    /\ hits' = afterFetch(hits, getDetailByIDOk(ans))
                    /\ found' = IF getDetailByIDOk(ans) /\ genreMatches(ans.md, gen)
                                THEN (foundKey(id, kwi) :> ans.md) @@ found
                                ELSE found
    /\ UNCHANGED <<pc, route, query, resp, page, recVars, gen, limit, kwi, cands,
                   ninv, rankVars>>

\* both loops are left, by break or by exhaustion, and the values of found
\* are copied out in the order the map yields them
collectReturn ==
    /\ pc = "collect"
    /\ full(found, limit) \/ (hits = 0 /\ kwi = Len(kw))
    /\ \E out \in Orders(found) : cands' = out
    /\ pc' = "returned"
    /\ call' = NoCall
    /\ UNCHANGED <<route, query, resp, called, audit, page, recVars, gen, limit, kwi,
                   hits, it, found, ninv, rankVars>>

(***************************************************************************)
(* recommendHandler and getDetailByTitle                                   *)
(***************************************************************************)
recommendHandler ==
    /\ pc = "start" /\ route = "recommend"
    /\ IF recommendParamsMissing(query)
       THEN Respond(ErrorResp(400))
       ELSE pc' = "resolve" /\ UNCHANGED resp
    /\ UNCHANGED <<route, query, call, called, audit, page, recVars, collVars, rankVars>>

\* main.go:310-325
recommendResp(res) ==
    LET cut == IF Len(res) > perLevel THEN SubSeq(res, 1, perLevel) ELSE res
    IN  RecommendResp([i \in 1..Len(cut) |-> recView(cut[i])])

\* The handler after result has become res at the end of the terms ts of
\* phase p: it calls collectByGenre for the next term or writes the response
\* (the loop variable it is left to the caller).
Continue(md, p, ts, res) ==
    LET a == advance(md, p, ts, res)
    IN  /\ phase' = a.phase
        /\ IF a.done
           THEN /\ Respond(recommendResp(res))
                /\ terms' = <<>>
                /\ UNCHANGED <<gen, limit, kwi, found, ninv>>
                /\ hits' = 0
                /\ cands' = <<>>
           ELSE /\ Invoke(Head(a.terms), perLevel)
                /\ terms' = Tail(a.terms)
                /\ UNCHANGED resp

\* getDetailByTitle has returned md without error, main.go:246-251
Resolved(md) ==
    /\ seed' = <<md>>
    /\ seen' = seedSeen(md)
    /\ result' = <<>>
    /\ Continue(md, 0, <<>>, <<>>)

\* the direct fetch by title, main.go:136-142
resolveDirect ==
    /\ pc = "resolve"
    /\ called' = TRUE
    /\ \E ans \in DetailAnswers :
           /\ call' = DetailCall("title", "title", ans)
           /\ audit' = noteFailure(audit, call')
           /\ IF directOk(ans)
              THEN Resolved(ans.md) /\ UNCHANGED <<page, it>>
              ELSE /\ pc' = "search"
                   /\ UNCHANGED <<resp, page, recVars, collVars>>
    /\ UNCHANGED <<route, query, rankVars>>

\* items := searchByKeyword(title, p) for the next page p
resolveSearch ==
    /\ pc = "search" /\ hits = 0 /\ page < lastPage
    /\ page' = page + 1
    /\ called' = TRUE
    /\ \E ans \in SearchAnswers :
           /\ call' = SearchCall("title", page + 1, ans)
           /\ hits' = searchByKeyword(ans)
    /\ audit' = noteFailure(audit, call')
    /\ UNCHANGED <<pc, route, query, resp, recVars, gen, limit, kwi, it, found, cands,
                   ninv, rankVars>>

\* the loop over the hits of a page, main.go:148-155
resolveVisit ==
    /\ pc = "search" /\ hits > 0
    /\ \E id \in HitIds :
           IF id = ""
           THEN /\ call' = NoCall
                /\ hits' = hits - 1
                /\ it' = id
                /\ UNCHANGED <<pc, resp, called, audit, recVars, gen, limit, kwi,
                               found, cands, ninv>>
           ELSE \E ans \in DetailAnswers :
                    /\ call' = DetailCall("id", id, ans)
                    /\ called' = TRUE
                    /\ audit' = noteFailure(audit, call')
                    /\ IF getDetailByIDOk(ans)
                       THEN Resolved(ans.md) /\ it' = id
                       ELSE /\ hits' = afterFetch(hits, FALSE)
                            /\ it' = id
                            /\ UNCHANGED <<pc, resp, recVars, gen, limit, kwi, found,
                                           cands, ninv>>
    /\ UNCHANGED <<route, query, page, rankVars>>

\* both pages are exhausted: getDetailByTitle returns the error and the
\* handler answers 404, main.go:157 and 242-245
resolveNotFound ==
    /\ pc = "search" /\ hits = 0 /\ page = lastPage
    /\ Respond(ErrorResp(404))
    /\ call' = NoCall
    /\ UNCHANGED <<route, query, called, audit, page, recVars, collVars, rankVars>>

\* main.go:255-268 once collectByGenre has returned: rank, admit, go on
recommendReturn ==
    /\ pc = "returned" /\ route = "recommend"
    /\ LET top == topByRating(cands, perLevel).out
           a == admit(top, seen, result)
       IN  /\ seen' = a.seen
           /\ result' = a.result
           /\ Continue(seed[1], phase, terms, a.result)
    /\ call' = NoCall
    /\ UNCHANGED <<route, query, called, audit, seed, page, it, rankVars>>

Next ==
    \/ movieHandler
    \/ episodeHandler
    \/ moviesByGenreHandler
    \/ moviesByGenreReturn
    \/ recommendHandler
    \/ resolveDirect
    \/ resolveSearch
    \/ resolveVisit
    \/ resolveNotFound
    \/ collectSearch
    \/ collectVisit
    \/ collectReturn
    \/ recommendReturn

Spec == Init /\ [][Next]_vars

(***************************************************************************)
(* The ranker on its own: topByRating applied to every candidate list of   *)
(* at most MaxLen records and every n up to MaxLen.                        *)
(***************************************************************************)
SeqsUpTo(S, n) == UNION {[1..k -> S] : k \in 0..n}

InitRank ==
    /\ route = "rank" /\ query = NoQuery
    /\ pc = "start"
    /\ resp = NoResp
    /\ call = NoCall
    /\ called = FALSE
    /\ audit = [watch |-> NoWatch, failed |-> FALSE]
    /\ seed = <<>> /\ seen = {} /\ result = <<>> /\ phase = 0 /\ terms = <<>>
    /\ ninv = 0 /\ page = 0 /\ gen = <<>> /\ limit = 0 /\ kwi = 0 /\ hits = 0
    /\ it = "" /\ found = EmptyMap /\ cands = <<>>
    /\ \E l \in SeqsUpTo(RankRecords, MaxLen), n \in 0..MaxLen :
           rankIn = [list |-> l, n |-> n]
    /\ rankOut = <<>>

callTopByRating ==
    /\ pc = "start" /\ route = "rank"
    /\ rankOut' = <<topByRating(rankIn.list, rankIn.n)>>
    /\ pc' = "done"
    /\ UNCHANGED <<route, query, resp, call, called, audit, page, recVars, collVars,
                   rankIn>>

NextRank == callTopByRating

SpecRank == InitRank /\ [][NextRank]_vars

SpecAudit == InitAudit /\ [][Next]_vars

TypeOK == pc \in {"start", "resolve", "search", "collect", "returned", "done"}

(***************************************************************************)
(* Properties                                                              *)
(***************************************************************************)
Range(s) == {s[i] : i \in DOMAIN s}
Count(s, x) == Cardinality({i \in DOMAIN s : s[i] = x})

\* adjacent entries are ordered by non-increasing parsed rating
NonIncreasing(s) ==
    \A i \in 1..(Len(s) - 1) : FGe(ratingVal(s[i]), ratingVal(s[i + 1]))

\* the imdbID of the resolved seed when it is a non-empty string
SeedHasId == seed # <<>> /\ IsStr(seed[1].imdbID) /\ seed[1].imdbID[1] # ""

\* C1: when the seed resolves with a non-empty imdbID, no record admitted to
\* the recommendations, and no entry of the recommendations array of the
\* response, carries the imdbID of the seed, whatever the provider answers.
C1_SeedNeverRecommended ==
    (route = "recommend" /\ SeedHasId) =>
        /\ \A i \in DOMAIN result : result[i].imdbID # seed[1].imdbID
        /\ \A i \in DOMAIN resp.list : resp.list[i].imdbID # seed[1].imdbID

\* the seed's own record was among the candidates of the last collection and
\* the response lists other titles
C1_Witness ==
    /\ pc = "done" /\ route = "recommend" /\ resp.code = 200
    /\ SeedHasId
    /\ resp.list # <<>>
    /\ \E k \in DOMAIN found : found[k].imdbID = seed[1].imdbID

\* C2: the recommendations never exceed perLevel entries, neither while the
\* three phases accumulate them nor in the response.
C2_AtMostPerLevel ==
    /\ Len(result) <= perLevel
    /\ route = "recommend" => Len(resp.list) <= perLevel

\* a full list that took the genre phase and a later collection to fill
C2_Witness ==
    /\ pc = "done" /\ route = "recommend" /\ resp.code = 200
    /\ Len(resp.list) = perLevel
    /\ phase = 4 /\ ninv >= 3

\* C3: the sequence collectByGenre returns never holds two records with the
\* same imdbID, whatever the provider answers.
C3_NoDuplicateImdbID ==
    pc = "returned" =>
        \A i, j \in DOMAIN cands :
            (i # j /\ IsStr(cands[i].imdbID)) => cands[i].imdbID # cands[j].imdbID

\* C4: for every candidate list and every n >= 0 the output of topByRating
\* has at most n records, takes each of them from the input list, using no
\* input record more often than the list holds it, and is ordered by
\* non-increasing parsed rating.
C4_TopByRatingRanked ==
    rankOut # <<>> =>
        LET out == rankOut[1].out
        IN  /\ Len(out) <= rankIn.n
            /\ \A r \in Range(out) : Count(out, r) <= Count(rankIn.list, r)
            /\ NonIncreasing(out)

\* C5: the movies array of the genre endpoint's 200 response is sorted by
\* non-increasing parsed imdbRating, has at most genreTop entries, and count
\* is its length.
C5_GenreResponseRanked ==
    (pc = "done" /\ route = "genre" /\ resp.code = 200) =>
        /\ NonIncreasing(resp.list)
        /\ Len(resp.list) <= genreTop
        /\ resp.count = <<Len(resp.list)>>

\* the call issued by the step is a fetch by title that came back without
\* error and with Response "True"
DirectSucceeds == call'.kind = "title" /\ ~call'.err /\ call'.response = Str("True")

\* C6: when the direct fetch by title succeeds with Response "True",
\* getDetailByTitle returns that record at once: the seed is the fetched
\* record, the search loop is not entered (no page is searched, no hit is
\* fetched by ID) and the handler goes on with the resolved seed.
C6_DirectFetchReturns ==
    [][(pc = "resolve" /\ DirectSucceeds) =>
          /\ seed' = call'.md
          /\ pc' \in {"collect", "done"}
          /\ resp'.code # 404
          /\ page' = 0 /\ hits' = 0 /\ it' = ""]_vars

\* the seed was returned by the direct fetch: no page was searched
C6_Witness ==
    /\ route = "recommend" /\ seed # <<>>
    /\ pc \in {"collect", "done"}
    /\ ninv <= 1 /\ kwi = 0
    /\ call.kind = "title" /\ call.response = Str("True") /\ seed = call.md
    /\ page = 0

\* the step leaves getDetailByTitle with the error "not found"
ReportsNotFound == pc \in {"resolve", "search"} /\ pc' = "done" /\ resp'.code = 404

\* C7: getDetailByTitle reports not found exactly when the direct fetch did
\* not succeed with Response "True" and no hit with a non-empty imdbID on
\* page 1 or page 2 was fetched by ID with success.  Step by step: a direct
\* fetch that does not succeed enters the search loop; the loop searches
\* page 1 and then page 2; every hit with a non-empty imdbID is fetched by
\* ID; a successful fetch returns its record and never the error; the error
\* is reported only after page 2, with every hit visited and nothing found.
C7_NotFoundExactly ==
    [][/\ (pc = "resolve" /\ call'.kind = "title" /\ ~DirectSucceeds) =>
              (pc' = "search" /\ seed' = <<>> /\ page' = 0)
       /\ (pc = "search" /\ call'.kind = "search") =>
              (hits = 0 /\ page < 2 /\ call'.page = page + 1 /\ page' = page + 1)
       /\ (pc = "search" /\ hits > 0) =>
              \/ it' = "" /\ call' = NoCall /\ pc' = "search"
              \/ it' # "" /\ call'.kind = "id" /\ call'.key = it'
       /\ (pc = "search" /\ call'.kind = "id") =>
              IF ~call'.err /\ call'.response # Str("False")
              THEN seed' = call'.md /\ pc' # "search" /\ resp'.code # 404
              ELSE pc' = "search" /\ seed' = <<>> /\ hits' = hits - 1
       /\ ReportsNotFound =>
              (pc = "search" /\ page = 2 /\ hits = 0 /\ seed = <<>> /\ seed' = <<>>)
       /\ (pc = "search" /\ page = 2 /\ hits = 0) => ReportsNotFound]_vars

\* not found after a hit of page 2 was fetched by ID in vain
C7_Witness ==
    /\ pc = "done" /\ route = "recommend" /\ resp.code = 404
    /\ page = 2 /\ it # "" /\ seed = <<>>

\* the query parameters each route requires
Required(r) ==
    CASE r = "movie" -> {"title"}
      [] r = "episode" -> {"series_title", "season", "episode_number"}
      [] r = "genre" -> {"genre"}
      [] OTHER -> {"favorite_movie"}

\* C8: on each of the four routes a request with a required query parameter
\* missing or empty issues no upstream call, and once handled it is answered
\* 400 with an error field.
C8_MissingParamRejected ==
    (\E f \in Required(route) : query[f] = <<>>) =>
        /\ ~called /\ call = NoCall /\ ninv = 0
        /\ pc \in {"start", "done"}
        /\ pc = "done" => (resp.code = 400 /\ resp.error)

\* an episode request with only the episode number missing was rejected
C8_Witness ==
    /\ pc = "done" /\ route = "episode"
    /\ query.series_title # <<>> /\ query.season # <<>> /\ query.episode_number = <<>>
    /\ resp.code = 400 /\ resp.error /\ ~called

\* the resolved seed carries none of the fields the three phases read
SeedBare ==
    /\ seed # <<>>
    /\ ~IsStr(seed[1].Genre) /\ ~IsStr(seed[1].Director) /\ ~IsStr(seed[1].Actors)

\* C9: a recommend request with a favorite title is answered 404 exactly
\* when the title did not resolve, and then collectByGenre was never called;
\* when it resolved the answer is 200, and for a seed with no Genre,
\* Director or Actors field the list is empty and nothing was collected.
C9_NotFoundIffUnresolved ==
    (route = "recommend" /\ query.favorite_movie # <<>>) =>
        /\ seed = <<>> => ninv = 0
        /\ pc = "done" =>
              /\ resp.code = 404 <=> seed = <<>>
              /\ resp.code = 200 <=> seed # <<>>
              /\ resp.code = 404 => (resp.error /\ resp.list = <<>>)
        /\ SeedBare => (ninv = 0 /\ pc = "done" /\ resp.list = <<>>)

\* a seed with none of the three fields was answered 200 with an empty list
C9_Witness ==
    /\ pc = "done" /\ route = "recommend"
    /\ SeedBare
    /\ resp.code = 200 /\ resp.list = <<>> /\ ninv = 0

\* C10 as stated: once a call has failed, no call for the same imdbID, or
\* for the same keyword and page, is issued again while the request is
\* handled.
C10_NeverIssuedAgain ==
    [][(audit.failed /\ call' # NoCall) => callId(call') # audit.watch]_vars

\* C10: a failed upstream call is not retried by the loop iteration that
\* issued it.  The step that issues a failing call moves on: a failing
\* keyword search leaves the keyword (or the page) behind with no hit to
\* visit, a failing fetch by ID leaves the hit behind and stores nothing, a
\* failing direct fetch enters the search loop, a failing fetch of the movie
\* and episode routes ends the request with 404.  No step moves a loop
\* back within an invocation.  The same imdbID, or the same keyword and page,
\* may still be requested by a later iteration or a later invocation of
\* collectByGenre.
C10_FailedCallSkipped ==
    [][/\ callFailed(call') =>
              CASE call'.kind = "search" /\ pc = "collect" ->
                       (kwi' = kwi + 1 /\ hits' = 0 /\ pc' = "collect" /\ found' = found)
                [] call'.kind = "search" /\ pc = "search" ->
                       (page' = page + 1 /\ hits' = 0 /\ pc' = "search")
                [] call'.kind = "id" ->
                       (hits > 0 /\ hits' = hits - 1 /\ pc' = pc /\ found' = found
                            /\ kwi' = kwi /\ page' = page)
                [] call'.kind = "title" /\ pc = "resolve" -> pc' = "search"
                [] OTHER -> (pc' = "done" /\ resp'.code = 404)
       /\ ninv' >= ninv /\ page' >= page
       /\ ninv' = ninv => kwi' >= kwi
       /\ hits' > hits => call'.kind = "search"
       /\ pc' # "start" /\ (pc' = "resolve" => pc = "start")]_vars

\* the watched call had failed and was issued again, this time with success,
\* at a later position of the loops
C10_Witness ==
    /\ audit.failed
    /\ call # NoCall /\ callId(call) = audit.watch /\ ~callFailed(call)

\* C11: topByRating leaves the list its caller passed in as it was: the same
\* records in the same order after the call as before it.
C11_TopByRatingPure ==
    rankOut # <<>> => rankOut[1].list = rankIn.list

\* a well-formed decimal number: an optional sign, digits, at most one point,
\* at least one digit
WellFormedDecimal(s) ==
    LET u == IF s # <<>> /\ Head(s) \in {"+", "-"} THEN Tail(s) ELSE s
        points == {i \in 1..Len(u) : u[i] = "."}
    IN  /\ Cardinality(points) <= 1
        /\ \A i \in 1..Len(u) : u[i] \in DigitChars \cup {"."}
        /\ \E i \in 1..Len(u) : u[i] \in DigitChars

\* C13: ratingVal gives the numeric value of a well-formed decimal imdbRating
\* ("8.5" gives 8.5) and 0 for a rating that is missing, not a string, empty,
\* "N/A" or no well-formed decimal number.
C13_RatingValParses ==
    rankOut # <<>> =>
        \A i \in DOMAIN rankIn.list :
            LET m == rankIn.list[i]
            IN  /\ (IsStr(m.imdbRating) /\ m.imdbRating[1] = R85) =>
                      ratingVal(m) = Num(8 * Scale + 50)
                /\ (IsStr(m.imdbRating) /\ WellFormedDecimal(m.imdbRating[1])) =>
                      ratingVal(m).k = "num"
                /\ ~(IsStr(m.imdbRating) /\ WellFormedDecimal(m.imdbRating[1])) =>
                      ratingVal(m) = Num(0)

\* C20: topByRating returns min(n, length of the list) records, and no
\* record it leaves out has a parsed rating strictly greater than that of a
\* record it returns.
C20_TopByRatingHighest ==
    rankOut # <<>> =>
        LET out == rankOut[1].out
            min == IF rankIn.n < Len(rankIn.list) THEN rankIn.n ELSE Len(rankIn.list)
        IN  /\ Len(out) = min
            /\ \A r \in Range(rankIn.list) :
                   Count(out, r) < Count(rankIn.list, r) =>
                       \A o \in Range(out) : ~FGt(ratingVal(r), ratingVal(o))

\* C12: every record held in found is stored under a non-empty imdbID and
\* has the Response "True" or no Response field; a record with any other
\* Response is never admitted.
C12_FoundRecordsValid ==
    \A k \in DOMAIN found :
        /\ k[1] # ""
        /\ found[k].Response \in {Str("True"), NoStr}

\* the step calls collectByGenre
Invokes == ninv' # ninv

\* C14: the phases of a recommend request run in the order genre, director,
\* actor.  collectByGenre is called only while the accumulated result is
\* short of perLevel, for a term of the field of the current phase, and the
\* phase never moves back; upstream calls of the collector are issued only
\* while the result is short, and a result that has reached perLevel ends
\* the request.
C14_PhasesInOrder ==
    [][route = "recommend" =>
          /\ phase' >= phase
          /\ Invokes =>
                /\ ninv' = ninv + 1
                /\ Len(result') < perLevel
                /\ phase' \in 1..3
                /\ IsStr(phaseField(seed'[1], phase'))
                /\ \E i \in DOMAIN Terms(phaseField(seed'[1], phase')[1]) :
                       gen' = Terms(phaseField(seed'[1], phase')[1])[i]
          /\ (pc = "collect" /\ call' # NoCall) => Len(result) < perLevel
          /\ Len(result') >= perLevel => (pc' = "done" /\ ~Invokes)]_vars

\* the genre phase filled the result and the seed's director was never
\* collected for
C14_Witness ==
    /\ pc = "done" /\ route = "recommend" /\ resp.code = 200
    /\ Len(result) = perLevel
    /\ IsStr(seed[1].Genre) /\ IsStr(seed[1].Director)
    /\ ninv = Len(Terms(seed[1].Genre[1]))

\* C15: after a direct fetch that did not succeed, getDetailByTitle searches
\* the title on page 1 and then on page 2 and on no other page, each page
\* once the hits of the page before are all visited; a hit with an empty
\* imdbID is passed without a call; hits are fetched by ID only while nothing
\* is resolved, and the first fetch that succeeds returns its record; once
\* the resolver has returned, no page is searched and the seed stays.
C15_SearchPagesInOrder ==
    [][/\ pc = "search" =>
              /\ call'.kind = "search" =>
                    /\ call'.key = "title" /\ call'.page \in {1, 2}
                    /\ call'.page = page + 1 /\ page' = call'.page
                    /\ hits = 0 /\ seed = <<>>
              /\ (hits > 0 /\ it' = "") => (call' = NoCall /\ hits' = hits - 1)
              /\ call'.kind = "id" =>
                    /\ hits > 0 /\ call'.key # "" /\ seed = <<>>
                    /\ page \in {1, 2} /\ page' = page
              /\ (call'.kind = "id" /\ ~callFailed(call')) =>
                    (seed' = call'.md /\ pc' \in {"collect", "done"})
              /\ call'.kind \in {"none", "search", "id"}
       /\ pc \in {"collect", "returned", "done"} =>
              (page' = page /\ seed' = seed /\ call'.key # "title")]_vars

\* the seed is the first hit of page 2 whose fetch by ID succeeded
C15_Witness ==
    /\ route = "recommend" /\ seed # <<>> /\ page = 2
    /\ call.kind = "id" /\ seed = call.md /\ call.key = it
    /\ pc \in {"collect", "done"} /\ ninv <= 1 /\ kwi = 0

SubstringIgnoringCase(s, sub) ==
    \E off \in 0..(Len(s) - Len(sub)) :
        \A i \in 1..Len(sub) : lowerChar(s[off + i]) = lowerChar(sub[i])

\* the hit the step visits is admitted by the claim's rule: its imdbID is
\* not empty and not yet a key of found, its fetch by ID succeeds, and the
\* Genre of the fetched record contains the filter
Qualifies ==
    /\ it' # "" /\ <<it'>> \notin DOMAIN found
    /\ call'.kind = "id" /\ call'.key = it' /\ ~callFailed(call')
    /\ IsStr(call'.md[1].Genre)
    /\ SubstringIgnoringCase(call'.md[1].Genre[1], gen)

\* C17: collectByGenre searches the seed keywords in their order on page 1
\* and visits the hits of each one by one; the visited hit is admitted
\* exactly when it qualifies, and then found gains the fetched record under
\* the hit's imdbID; a fetch by ID is issued exactly for the hits with a
\* non-empty imdbID that is no key of found; a keyword search or a fetch that
\* fails changes nothing in found and the scan goes on with the next keyword
\* or hit.
C17_AdmittedIffQualifies ==
    [][(pc = "collect" /\ pc' = "collect") =>
          /\ hits > 0 =>
                /\ hits' = hits - 1 /\ kwi' = kwi
                /\ found' # found <=> Qualifies
                /\ Qualifies => found' = (<<it'>> :> call'.md[1]) @@ found
                /\ (it' # "" /\ <<it'>> \notin DOMAIN found) <=> call'.kind = "id"
          /\ hits = 0 =>
                /\ call'.kind = "search" /\ call'.key = kw[kwi + 1] /\ call'.page = 1
                /\ kwi' = kwi + 1 /\ found' = found
                /\ callFailed(call') => hits' = 0
          /\ callFailed(call') => found' = found]_vars

\* the watched fetch by ID had failed in this invocation of the genre route
\* and the step just taken admitted a hit all the same
C17_Witness ==
    /\ route = "genre" /\ pc = "collect"
    /\ audit.watch = <<"id", "t1", 0>> /\ audit.failed
    /\ call.kind = "id" /\ ~callFailed(call)
    /\ <<it>> \in DOMAIN found /\ found[<<it>>] = call.md[1]

\* the terms of the Genre, Director and Actors fields of a seed
TermCount(md) == Len(phaseTerms(md, 1)) + Len(phaseTerms(md, 2)) + Len(phaseTerms(md, 3))

\* What is left of a call of collectByGenre: the keywords not yet searched
\* and the hits not yet visited.
CollectLeft ==
    CASE pc = "collect" -> 1 + hits + (MaxHits + 1) * (Len(kw) - kwi)
      [] OTHER -> 0
CollectMost == 1 + MaxHits + (MaxHits + 1) * Len(kw)

\* a field of n characters splits into n + 1 terms at most
TermsMost(f) == IF IsStr(f) THEN Len(f[1]) + 1 ELSE 0

\* the calls of collectByGenre a request may still make, at most: one on the
\* genre route; on the recommend route one for each term left of the
\* current phase and for each term of the phases to come
CallsLeft ==
    CASE route = "genre" -> 1 - ninv
      [] route = "recommend" /\ seed # <<>> ->
            Len(terms)
              + (IF phase < 2 THEN TermsMost(seed[1].Director) ELSE 0)
              + (IF phase < 3 THEN TermsMost(seed[1].Actors) ELSE 0)
      [] OTHER -> 0

\* the stages of a request before a seed is resolved, counted down
StagesLeft ==
    CASE pc = "start" -> 3 [] pc = "resolve" -> 2 [] pc = "search" -> 1 [] OTHER -> 0

\* what is left within the stage: the pages not yet searched and the hits
\* not yet visited, or the calls of collectByGenre and the response
Left ==
    CASE pc = "search" -> 1 + hits + (MaxHits + 1) * (2 - page)
      [] pc \in {"collect", "returned"} -> 1 + CallsLeft * (CollectMost + 1) + CollectLeft
      [] OTHER -> 0

\* a handler that has not responded can take its next step (the two steps
\* that follow the return of collectByGenre have no other condition)
CanStep ==
    \/ ENABLED movieHandler \/ ENABLED episodeHandler \/ ENABLED moviesByGenreHandler
    \/ ENABLED recommendHandler
    \/ ENABLED resolveDirect \/ ENABLED resolveSearch \/ ENABLED resolveVisit
    \/ ENABLED resolveNotFound
    \/ ENABLED collectSearch \/ ENABLED collectVisit \/ ENABLED collectReturn
    \/ (pc = "returned" /\ route \in {"genre", "recommend"})

\* C18: every request, a recommend request in particular, completes with a
\* response after a bounded number of steps, each with at most one upstream
\* call: a handler that has not responded can always take its next step,
\* and every step leaves strictly less to do, in stages and within a stage
\* by a count that is never negative.  On the way collectByGenre is called
\* at most once for each term of the seed's three fields, and each call
\* searches the seed keywords one after the other, each at most once.
C18_RequestCompletes ==
    /\ [](pc # "done" => CanStep)
    /\ [][/\ \/ StagesLeft' < StagesLeft
             \/ StagesLeft' = StagesLeft /\ Left' < Left
          /\ Left' >= 0 /\ CallsLeft' >= 0
          /\ (Invokes /\ route = "recommend") => ninv' <= TermCount(seed'[1])
          /\ kwi' <= Len(kw)
          /\ (pc = "collect" /\ call'.kind = "search") =>
                 (kwi' = kwi + 1 /\ call'.key = kw[kwi'])
          /\ pc' = "done" => resp'.code \in {200, 400, 404}]_vars

\* the request ended after one call of collectByGenre for every term of the
\* seed, three or more
C18_Witness ==
    /\ pc = "done" /\ route = "recommend" /\ resp.code = 200
    /\ ninv = TermCount(seed[1]) /\ ninv >= 3

\* C19: across the three phases the accumulated result never holds two
\* records with the same imdbID and every record in it has a string imdbID
\* that is in seen; the result only grows at its end, seen only grows, and a
\* record is admitted only if its imdbID was not in seen before, so nothing
\* admitted in an earlier phase or term is admitted again.
C19_ResultDistinct ==
    [][route = "recommend" =>
          /\ \A i \in DOMAIN result' :
                 IsStr(result'[i].imdbID) /\ result'[i].imdbID[1] \in seen'
          /\ \A i, j \in DOMAIN result' :
                 i # j => result'[i].imdbID # result'[j].imdbID
          /\ Len(result') >= Len(result)
          /\ SubSeq(result', 1, Len(result)) = result
          /\ seed # <<>> => seen \subseteq seen'
          /\ \A i \in (Len(result) + 1)..Len(result') :
                 result'[i].imdbID[1] \notin seen]_vars

\* collectByGenre has returned, for a later term, a record that is in the
\* result already
C19_Witness ==
    /\ route = "recommend" /\ pc = "returned" /\ ninv >= 2
    /\ \E i \in DOMAIN cands : \E j \in DOMAIN result : cands[i] = result[j]

====
